---- MODULE Spec2Model ----
(***************************************************************************)
(* Model of the UC control module (src/index.js): the packet codec, the    *)
(* TCP frame reassembler, the state store (channelStates and               *)
(* mixerBypassState) and the command API.                                  *)
(*                                                                         *)
(* A Buffer is a sequence of bytes (naturals 0..255); offsets in the       *)
(* source are 0-based, TLA+ sequences are 1-based.                         *)
(***************************************************************************)
EXTENDS Integers, Sequences, FiniteSets, TLC

VARIABLES
  channelStates,      \* this.channelStates     (index.js:12)
  mixerBypassState,   \* this.mixerBypassState  (index.js:13)
  receiveBuffer,      \* this.receiveBuffer     (index.js:14)
  tcpClient,          \* this.tcpClient: "none", "connecting", "open", "errored", "closed"
  udpServer,          \* this.udpServer: "none", "binding", "bound"
  udpPort,            \* this.udpPort, 0 while undefined
  status,             \* last value given to updateStatus, "none" before init
  wire,               \* packets handed to tcpClient.write by the last handler
  handed,             \* packets handed to sendPacket by the last handler
  feedbacks,          \* ids given to checkFeedbacks by the last handler
  errors,             \* number of 'error' log entries of the last handler
  event,              \* the event the last handler served
  nEvents,            \* number of events handled so far
  stream,             \* reassembler runs: the bytes the peer still has to deliver
  yielded,            \* packets parsed and dispatched (cumulative in reassembler runs)
  built,              \* codec runs: the message handed to a builder and its frame
  decoded,            \* codec runs: parsePacket's result on that frame
  heartbeatInterval,  \* this.heartbeatInterval: TRUE while the interval timer is set
  staleSockets,       \* sockets destroy()ed by the module whose 'close' event is still to come
  tcpCreated,         \* number of net.Socket instances created so far
  udpCreated          \* number of dgram sockets created so far

vars == <<channelStates, mixerBypassState, receiveBuffer, tcpClient, udpServer, udpPort, status, wire,
          handed, feedbacks, errors, event, nEvents, stream, yielded, built, decoded,
          heartbeatInterval, staleSockets, tcpCreated, udpCreated>>

(***************************************************************************)
(* Bounds of the model.                                                    *)
(***************************************************************************)
MaxChannel == 2
MaxEvents == 2
MaxFrames == 2
MaxGarbage == 5

(***************************************************************************)
(* Bytes and buffers.                                                      *)
(***************************************************************************)
Min(a, b) == IF a < b THEN a ELSE b
Max(a, b) == IF a > b THEN a ELSE b

\* Buffer.prototype.slice(start, end): negative offsets count from the end,
\* both are clamped to the buffer.
slice(buf, start, end) ==
  LET n == Len(buf)
      s == IF start < 0 THEN Max(n + start, 0) ELSE Min(start, n)
      e == IF end < 0 THEN Max(n + end, 0) ELSE Min(end, n)
  IN  IF e <= s THEN <<>> ELSE SubSeq(buf, s + 1, e)

sliceFrom(buf, start) == slice(buf, start, Len(buf))

\* readUInt16LE(offset) throws a RangeError unless offset + 2 <= length.
canRead(buf, offset, width) == offset >= 0 /\ offset + width <= Len(buf)
readUInt16LE(buf, offset) == buf[offset + 1] + 256 * buf[offset + 2]
writeUInt16LE(v) == <<v % 256, (v \div 256) % 256>>
writeUInt32LE(v) ==
  <<v % 256, (v \div 256) % 256, (v \div 65536) % 256, (v \div 16777216) % 256>>

\* A float is kept as the four bytes of its IEEE-754 single pattern, least
\* significant first: writeFloatLE / readFloatLE move those bytes.
writeFloatLE(value) == value
readFloatLE(buf, offset) == SubSeq(buf, offset + 1, offset + 4)

\* val > 0 on a single-precision value: positive sign, not zero, not NaN.
FloatGT0(value) ==
  LET sign == value[4] \div 128
      expo == (value[4] % 128) * 2 + value[3] \div 128
      mant == (value[3] % 128) * 65536 + value[2] * 256 + value[1]
  IN  sign = 0 /\ ~(expo = 0 /\ mant = 0) /\ ~(expo = 255 /\ mant # 0)

\* buf.toString('ascii', start, end): the high bit of every byte is dropped.
toAscii(buf, start, end) ==
  LET s == slice(buf, start, end) IN [i \in 1..Len(s) |-> s[i] % 128]

\* Byte values of the ASCII literals of the source.
chr_U == 85
chr_C == 67
chr_slash == 47
chr_0 == 48
chr_9 == 57
str_UC == <<85, 67>>
str_UM == <<85, 77>>
str_JM == <<74, 77>>
str_KA == <<75, 65>>
str_PV == <<80, 86>>
str_ZM == <<90, 77>>
str_line_ch == <<108, 105, 110, 101, 47, 99, 104>>
str_globalMixerBypass ==
  <<103, 108, 111, 98, 97, 108, 47, 109, 105, 120, 101, 114, 66, 121, 112, 97, 115, 115>>

Attrs == {"mute", "solo", "48v", "hpf", "pad"}

attrBytes(attr) ==
  CASE attr = "mute" -> <<109, 117, 116, 101>>
    [] attr = "solo" -> <<115, 111, 108, 111>>
    [] attr = "48v"  -> <<52, 56, 118>>
    [] attr = "hpf"  -> <<104, 112, 102>>
    [] attr = "pad"  -> <<112, 97, 100>>

\* The decimal digits of a number, as a template literal `${n}` prints them.
RECURSIVE decimal(_)
decimal(n) == IF n < 10 THEN <<chr_0 + n>> ELSE decimal(n \div 10) \o <<chr_0 + (n % 10)>>

\* parseInt(digits, 10) of a string of decimal digits.
RECURSIVE parseInt(_)
parseInt(digits) ==
  IF Len(digits) = 0 THEN 0
  ELSE 10 * parseInt(SubSeq(digits, 1, Len(digits) - 1)) + (digits[Len(digits)] - chr_0)

\* `line/ch${channelNumber}/${attr}`
channelPath(channelNumber, attr) ==
  str_line_ch \o decimal(channelNumber) \o <<chr_slash>> \o attrBytes(attr)

(***************************************************************************)
(* Packet builders.                                                        *)
(***************************************************************************)
\* Buffer.from('UC\x00\x01', 'ascii')
header == <<85, 67, 0, 1>>

addr_a_UM == 0
addr_a == 104
addr_b == 102

frameOf(type, a, b, body) ==
  LET payload == type \o writeUInt16LE(a) \o writeUInt16LE(b) \o body
  IN  header \o writeUInt16LE(Len(payload)) \o payload

buildUMPacket(port) == frameOf(str_UM, addr_a_UM, addr_b, writeUInt16LE(port))

subMsgBuffer ==
  <<123, 34, 105, 100, 34, 58, 34, 83, 117, 98, 115, 99, 114, 105, 98, 101, 34, 44, 34, 99,
    108, 105, 101, 110, 116, 78, 97, 109, 101, 34, 58, 34, 85, 110, 105, 118, 101, 114, 115, 97,
    108, 32, 67, 111, 110, 116, 114, 111, 108, 34, 44, 34, 99, 108, 105, 101, 110, 116, 73, 110,
    116, 101, 114, 110, 97, 108, 78, 97, 109, 101, 34, 58, 34, 117, 99, 114, 101, 109, 111, 116,
    101, 97, 112, 112, 34, 44, 34, 99, 108, 105, 101, 110, 116, 84, 121, 112, 101, 34, 58, 34,
    105, 80, 104, 111, 110, 101, 34, 44, 34, 99, 108, 105, 101, 110, 116, 68, 101, 115, 99, 114,
    105, 112, 116, 105, 111, 110, 34, 58, 34, 105, 80, 104, 111, 110, 101, 34, 44, 34, 99, 108,
    105, 101, 110, 116, 73, 100, 101, 110, 116, 105, 102, 105, 101, 114, 34, 58, 34, 66, 69, 55,
    48, 53, 66, 53, 66, 45, 65, 67, 69, 67, 45, 52, 57, 52, 49, 45, 57, 65, 66, 65,
    45, 52, 70, 66, 53, 67, 65, 48, 52, 65, 67, 54, 68, 34, 44, 34, 99, 108, 105, 101,
    110, 116, 79, 112, 116, 105, 111, 110, 115, 34, 58, 34, 34, 44, 34, 99, 108, 105, 101, 110,
    116, 69, 110, 99, 111, 100, 105, 110, 103, 34, 58, 50, 51, 49, 49, 55, 125>>

buildJMPacket ==
  frameOf(str_JM, addr_a, addr_b, writeUInt32LE(Len(subMsgBuffer)) \o subMsgBuffer)

buildKAPacket == frameOf(str_KA, addr_a, addr_b, <<>>)

padding == <<0, 0, 0>>

buildPVPacket(name, value) ==
  frameOf(str_PV, addr_a, addr_b, name \o padding \o writeFloatLE(value))

\* The float patterns of `flag ? 1.0 : 0.0`.
float_one == <<0, 0, 128, 63>>
float_zero == <<0, 0, 0, 0>>
floatOf(flag) == IF flag THEN float_one ELSE float_zero

(***************************************************************************)
(* parsePacket.                                                            *)
(***************************************************************************)
NoPacket == [thrown |-> TRUE, type |-> <<>>, addressPair |-> [a |-> 0, b |-> 0], data |-> <<>>]

parsePacket(data) ==
  IF Len(data) < 6 THEN NoPacket
  ELSE IF toAscii(data, 0, 2) # str_UC \/ readUInt16LE(data, 2) # 1 THEN NoPacket
  ELSE LET size == readUInt16LE(data, 4) IN
       IF Len(data) < 6 + size THEN NoPacket
       ELSE LET payload == slice(data, 6, 6 + size) IN
            \* payload.readUInt16LE(2) and (4) throw on a payload under 6 bytes
            IF ~canRead(payload, 4, 2) THEN NoPacket
            ELSE [thrown |-> FALSE,
                  type |-> toAscii(payload, 0, 2),
                  addressPair |-> [a |-> readUInt16LE(payload, 2),
                                   b |-> readUInt16LE(payload, 4)],
                  data |-> sliceFrom(payload, 6)]

(***************************************************************************)
(* The state store.  channelStates is a function from the channel numbers  *)
(* that have an object to that object; a field of the object is "true",    *)
(* "false" or "undefined" (absent).                                        *)
(***************************************************************************)
Tri == {"true", "false", "undefined"}
triOf(flag) == IF flag THEN "true" ELSE "false"
EmptyObject == [a \in Attrs |-> "undefined"]

\* this.channelStates[channelNumber], with undefined as the empty object:
\* every use in the source reads a field of it behind `currentState &&`,
\* spreads it, or replaces it by `|| {}`.
objectOf(cs, channelNumber) ==
  IF channelNumber \in DOMAIN cs THEN cs[channelNumber] ELSE EmptyObject

\* channelStates[channelNumber] = obj
putObject(cs, channelNumber, obj) ==
  [c \in DOMAIN cs \cup {channelNumber} |-> IF c = channelNumber THEN obj ELSE cs[c]]

\* `currentState && typeof currentState[attr] === 'boolean'`
isBoolean(cs, channelNumber, attr) == objectOf(cs, channelNumber)[attr] # "undefined"

feedbackId(attr) ==
  CASE attr = "mute" -> "channel_mute_state"
    [] attr = "solo" -> "channel_solo_state"
    [] attr = "48v"  -> "channel_48v_state"
    [] attr = "hpf"  -> "channel_hpf_state"
    [] attr = "pad"  -> "channel_pad_state"

\* What a handler works on: the store, the socket, the packets it gave to
\* sendPacket and to tcpClient.write, the feedback ids it refreshed, the
\* 'error' entries it logged, and whether an exception left it.
Context(cs, mb, tcp) ==
  [cs |-> cs, mb |-> mb, tcp |-> tcp, handed |-> <<>>, wire |-> <<>>,
   fb |-> {}, err |-> 0, thrown |-> FALSE]

\* name.replace(/\0/g, '')
RECURSIVE stripNul(_)
stripNul(s) ==
  IF Len(s) = 0 THEN <<>>
  ELSE IF Head(s) = 0 THEN stripNul(Tail(s)) ELSE <<Head(s)>> \o stripNul(Tail(s))

isDigit(b) == b >= chr_0 /\ b <= chr_9

\* name.match(/^line\/ch(\d+)\/(mute|solo|48v|hpf|pad)$/)
NoMatch == [ok |-> FALSE, channelNumber |-> 0, parameter |-> "mute"]
matchChannelPath(name) ==
  LET p == Len(str_line_ch) IN
  IF Len(name) <= p \/ SubSeq(name, 1, p) # str_line_ch THEN NoMatch
  ELSE LET rest == SubSeq(name, p + 1, Len(name))
           nd == IF \E i \in 1..Len(rest) : ~isDigit(rest[i])
                 THEN (CHOOSE i \in 1..Len(rest) :
                         ~isDigit(rest[i]) /\ \A j \in 1..(i - 1) : isDigit(rest[j])) - 1
                 ELSE Len(rest)
       IN  IF nd = 0 \/ nd = Len(rest) \/ rest[nd + 1] # chr_slash THEN NoMatch
           ELSE LET tail == SubSeq(rest, nd + 2, Len(rest)) IN
                IF \E a \in Attrs : attrBytes(a) = tail
                THEN [ok |-> TRUE,
                      channelNumber |-> parseInt(SubSeq(rest, 1, nd)),
                      parameter |-> CHOOSE a \in Attrs : attrBytes(a) = tail]
                ELSE NoMatch

\* A variant of handlePVPacket that assigns a fresh object instead of spreading
\* the old one; the delta-update property tells the two apart.
handlePVPacket_noSpread(packet, s) ==
  LET data == packet.data
      nameLength == Len(data) - 4
  IN  IF ~canRead(data, nameLength, 4) THEN [s EXCEPT !.thrown = TRUE]
      ELSE LET name == stripNul(slice(data, 0, nameLength))
               val == readFloatLE(data, nameLength)
               match == matchChannelPath(name)
           IN  IF name = str_globalMixerBypass
               THEN [s EXCEPT !.mb = FloatGT0(val), !.fb = @ \cup {"mixer_bypass_state"}]
               ELSE IF match.ok
               THEN [s EXCEPT
                       !.cs = putObject(s.cs, match.channelNumber,
                                [EmptyObject
                                   EXCEPT ![match.parameter] = triOf(FloatGT0(val))]),
                       !.fb = @ \cup {feedbackId(match.parameter)}]
               ELSE s

handlePVPacket(packet, s) ==
  LET data == packet.data
      nameLength == Len(data) - 4
  IN  \* data.readFloatLE(nameLength) throws when the body has under 4 bytes
      IF ~canRead(data, nameLength, 4) THEN [s EXCEPT !.thrown = TRUE]
      ELSE LET name == stripNul(slice(data, 0, nameLength))
               val == readFloatLE(data, nameLength)
               match == matchChannelPath(name)
           IN  IF name = str_globalMixerBypass
               THEN [s EXCEPT !.mb = FloatGT0(val), !.fb = @ \cup {"mixer_bypass_state"}]
               ELSE IF match.ok
               THEN [s EXCEPT
                       !.cs = putObject(s.cs, match.channelNumber,
                                [objectOf(s.cs, match.channelNumber)
                                   EXCEPT ![match.parameter] = triOf(FloatGT0(val))]),
                       !.fb = @ \cup {feedbackId(match.parameter)}]
               ELSE s

(***************************************************************************)
(* Snapshots.  A decoded JSON document is                                  *)
(*   [line   |-> [present, children], global |-> [present, values]]        *)
(* for jsonData.children.line and jsonData.children.global; children is    *)
(* the sequence Object.entries gives, each entry a key (bytes) and its     *)
(* channelData [hasValues, values]; a values object is a function from the *)
(* keys it holds to their numbers.  Every node of the tree is an object.   *)
(*                                                                         *)
(* zlib.inflateRawSync and JSON.parse are library code: the model knows    *)
(* them by a table.  The one-byte stream <<k>>, 1 <= k <= Len(Documents),  *)
(* inflates to the text of Documents[k]; <<0>> inflates to a text that is  *)
(* no JSON; every other stream is corrupt.                                 *)
(***************************************************************************)
key_ch1 == <<99, 104, 49>>
key_ch2 == <<99, 104, 50>>
key_ch01 == <<99, 104, 48, 49>>
key_aux1 == <<97, 117, 120, 49>>
str_ch == <<99, 104>>

NoValues == [a \in {} |-> 0]
Entry(key, values) == [key |-> key, hasValues |-> TRUE, values |-> values]
EntryNoValues(key) == [key |-> key, hasValues |-> FALSE, values |-> NoValues]
Line(children) == [present |-> TRUE, children |-> children]
NoLine == [present |-> FALSE, children |-> <<>>]
Global(values) == [present |-> TRUE, values |-> values]
NoGlobal == [present |-> FALSE, values |-> NoValues]
Document(line, global) == [line |-> line, global |-> global]

Documents ==
  << Document(Line(<<Entry(key_ch1, [a \in {"mute"} |-> 1])>>), NoGlobal),
     Document(Line(<<Entry(key_ch1, [a \in {"mute", "solo"} |-> IF a = "solo" THEN 1 ELSE 0])>>),
              NoGlobal),
     Document(Line(<<Entry(key_ch2, [a \in {"48v", "hpf", "pad"} |-> IF a = "hpf" THEN 0 ELSE 1])>>),
              NoGlobal),
     Document(NoLine, Global([a \in {"mixerBypass"} |-> 1])),
     Document(Line(<<Entry(key_ch1, [a \in {"solo"} |-> 0])>>),
              Global([a \in {"mixerBypass"} |-> 0])),
     Document(Line(<<Entry(key_ch1, NoValues)>>), NoGlobal),
     Document(Line(<<EntryNoValues(key_ch2)>>), Global(NoValues)),
     Document(Line(<<Entry(key_aux1, [a \in {"mute"} |-> 1])>>), NoGlobal),
     Document(Line(<<Entry(key_ch1, [a \in {"mute"} |-> 2]),
                     Entry(key_ch2, [a \in {"mute", "pad"} |-> -1])>>), NoGlobal),
     Document(Line(<<>>), NoGlobal),
     Document(NoLine, NoGlobal),
     Document(Line(<<Entry(key_ch01, [a \in {"pad"} |-> 1])>>), NoGlobal),
     Document(Line(<<Entry(key_ch1, [a \in Attrs |-> 1])>>),
              Global([a \in {"mixerBypass"} |-> 1])) >>

\* [thrown, text]: the text is named by its place in Documents, 0 for the
\* text that is no JSON.
inflateRawSync(compressedData) ==
  IF Len(compressedData) = 1 /\ compressedData[1] <= Len(Documents)
  THEN [thrown |-> FALSE, text |-> compressedData[1]]
  ELSE [thrown |-> TRUE, text |-> 0]

\* [thrown, value]
JSONparse(text) ==
  IF text = 0 THEN [thrown |-> TRUE, value |-> Document(NoLine, NoGlobal)]
  ELSE [thrown |-> FALSE, value |-> Documents[text]]

\* key.match(/^ch(\d+)$/)
matchChannelKey(key) ==
  Len(key) > 2 /\ SubSeq(key, 1, 2) = str_ch /\ \A i \in 3..Len(key) : isDigit(key[i])

\* A variant of updateOneChannel that replaces the channel's object by what the
\* document holds; the snapshot-merge property tells the two apart.
updateOneChannel_replace(cs, entry) ==
  IF matchChannelKey(entry.key) /\ entry.hasValues
  THEN LET channelNumber == parseInt(SubSeq(entry.key, 3, Len(entry.key)))
           values == entry.values
       IN  putObject(cs, channelNumber,
             [a \in Attrs |-> IF a \in DOMAIN values THEN triOf(values[a] > 0)
                              ELSE "undefined"])
  ELSE cs

\* One pass of the loop over Object.entries(lineChildren).
updateOneChannel(cs, entry) ==
  IF matchChannelKey(entry.key) /\ entry.hasValues
  THEN LET channelNumber == parseInt(SubSeq(entry.key, 3, Len(entry.key)))
           values == entry.values
           old == objectOf(cs, channelNumber)
       IN  putObject(cs, channelNumber,
             [a \in Attrs |-> IF a \in DOMAIN values THEN triOf(values[a] > 0) ELSE old[a]])
  ELSE cs

RECURSIVE updateEntries(_, _)
updateEntries(cs, entries) ==
  IF Len(entries) = 0 THEN cs
  ELSE updateEntries(updateOneChannel(cs, Head(entries)), Tail(entries))

updateChannelStates(jsonData, cs) ==
  IF jsonData.line.present THEN updateEntries(cs, jsonData.line.children) ELSE cs

updateGlobalStates(jsonData, mb) ==
  IF jsonData.global.present /\ "mixerBypass" \in DOMAIN jsonData.global.values
  THEN jsonData.global.values["mixerBypass"] > 0
  ELSE mb

\* A variant of handleZMPacket without the try block around inflate and parse;
\* the dropped-snapshot property tells the two apart.
handleZMPacket_noCatch(packet, s) ==
  LET data == packet.data IN
  IF ~canRead(data, 0, 4) THEN [s EXCEPT !.thrown = TRUE]
  ELSE LET compressedPayload == sliceFrom(data, 4)
           compressedData == sliceFrom(compressedPayload, 2)
           decompressed == inflateRawSync(compressedData)
           parsed == JSONparse(decompressed.text)
       IN  IF decompressed.thrown \/ parsed.thrown
           THEN [s EXCEPT !.thrown = TRUE]
           ELSE [s EXCEPT !.cs = updateChannelStates(parsed.value, s.cs),
                          !.mb = updateGlobalStates(parsed.value, s.mb)]

handleZMPacket(packet, s) ==
  LET data == packet.data IN
  \* data.readUInt32LE(0) is outside the try block
  IF ~canRead(data, 0, 4) THEN [s EXCEPT !.thrown = TRUE]
  ELSE LET compressedPayload == sliceFrom(data, 4)
           compressedData == sliceFrom(compressedPayload, 2)
           decompressed == inflateRawSync(compressedData)
           parsed == JSONparse(decompressed.text)
       IN  IF decompressed.thrown \/ parsed.thrown
           THEN [s EXCEPT !.err = @ + 1]
           ELSE [s EXCEPT !.cs = updateChannelStates(parsed.value, s.cs),
                          !.mb = updateGlobalStates(parsed.value, s.mb)]

\* The dispatch both inbound handlers make on a parsed packet.
dispatch(packet, s) ==
  IF packet.type = str_ZM THEN handleZMPacket(packet, s)
  ELSE IF packet.type = str_PV THEN handlePVPacket(packet, s)
  ELSE s

(***************************************************************************)
(* The frame reassembler.                                                  *)
(***************************************************************************)
\* buf.indexOf('UC', 0, 'ascii'): the first offset of the bytes 'U','C', or -1
indexOfUC(buf) ==
  LET hits == {i \in 1..(Len(buf) - 1) : buf[i] = chr_U /\ buf[i + 1] = chr_C}
  IN  IF hits = {} THEN -1 ELSE (CHOOSE i \in hits : \A j \in hits : i <= j) - 1

\* The while loop of handleIncomingData on [buf, s, out]: out collects the
\* packets parsePacket returned.
RECURSIVE reassemble(_)
reassemble(r) ==
  IF Len(r.buf) < 6 THEN r
  ELSE LET headerIndex == indexOfUC(r.buf) IN
       IF headerIndex = -1 THEN [r EXCEPT !.buf = <<>>]
       ELSE LET buf1 == IF headerIndex > 0 THEN sliceFrom(r.buf, headerIndex) ELSE r.buf IN
            IF Len(buf1) < 6 THEN [r EXCEPT !.buf = buf1]
            ELSE IF readUInt16LE(buf1, 2) # 1 THEN reassemble([r EXCEPT !.buf = sliceFrom(buf1, 2)])
            ELSE LET size == readUInt16LE(buf1, 4)
                     totalSize == 6 + size
                 IN  IF Len(buf1) < totalSize THEN [r EXCEPT !.buf = buf1]
                     ELSE LET packetData == slice(buf1, 0, totalSize)
                              buf2 == sliceFrom(buf1, totalSize)
                              packet == parsePacket(packetData)
                              after == IF packet.thrown THEN [r.s EXCEPT !.thrown = TRUE]
                                       ELSE dispatch(packet, r.s)
                          IN  IF after.thrown
                              THEN reassemble(
                                     [buf |-> sliceFrom(buf2, 2),
                                      s |-> [after EXCEPT !.thrown = FALSE, !.err = @ + 1],
                                      out |-> IF packet.thrown THEN r.out
                                              ELSE Append(r.out, packet)])
                              ELSE reassemble(
                                     [buf |-> buf2, s |-> after, out |-> Append(r.out, packet)])

\* A variant of handleIncomingData that forgets the bytes carried over from the
\* chunks before; the chunk-independence property tells the two apart.
handleIncomingData_noCarry(data, buf, s) ==
  reassemble([buf |-> data, s |-> s, out |-> <<>>])

\* A variant of handleIncomingData that empties the buffer when it starts with
\* the magic and a version other than 1; the resynchronization property tells
\* the two apart.
handleIncomingData_dropOnBadVersion(data, buf, s) ==
  LET all == buf \o data IN
  IF Len(all) >= 6 /\ indexOfUC(all) = 0 /\ readUInt16LE(all, 2) # 1
  THEN [buf |-> <<>>, s |-> s, out |-> <<>>]
  ELSE reassemble([buf |-> all, s |-> s, out |-> <<>>])

\* Lines 571-589 of the loop: the frame at the head of buf1 is taken out of
\* the buffer, decoded and dispatched; the catch block skips 2 bytes more.
extractPacket(buf1, totalSize, r) ==
  LET packetData == slice(buf1, 0, totalSize)
      buf2 == sliceFrom(buf1, totalSize)
      packet == parsePacket(packetData)
      after == IF packet.thrown THEN [r.s EXCEPT !.thrown = TRUE]
               ELSE dispatch(packet, r.s)
  IN  IF after.thrown
      THEN [buf |-> sliceFrom(buf2, 2),
            s |-> [after EXCEPT !.thrown = FALSE, !.err = @ + 1],
            out |-> IF packet.thrown THEN r.out ELSE Append(r.out, packet),
            exit |-> FALSE]
      ELSE [buf |-> buf2, s |-> after, out |-> Append(r.out, packet), exit |-> FALSE]

\* A variant of iteration whose version skip leaves the buffer as it is; the
\* termination property tells the two apart.
iteration_keepOnBadVersion(r) ==
  LET headerIndex == indexOfUC(r.buf) IN
  IF headerIndex = -1 THEN [buf |-> <<>>, s |-> r.s, out |-> r.out, exit |-> TRUE]
  ELSE LET buf1 == IF headerIndex > 0 THEN sliceFrom(r.buf, headerIndex) ELSE r.buf IN
       IF Len(buf1) < 6 THEN [buf |-> buf1, s |-> r.s, out |-> r.out, exit |-> TRUE]
       ELSE IF readUInt16LE(buf1, 2) # 1
       THEN [buf |-> buf1, s |-> r.s, out |-> r.out, exit |-> FALSE]
       ELSE LET totalSize == 6 + readUInt16LE(buf1, 4) IN
            IF Len(buf1) < totalSize
            THEN [buf |-> buf1, s |-> r.s, out |-> r.out, exit |-> TRUE]
            ELSE extractPacket(buf1, totalSize, r)

\* One pass through the body of the while loop of handleIncomingData, entered
\* with a buffer of 6 bytes or more: the buffer, the store and the packets
\* yielded after it, and whether the pass left the loop by a break.
iteration(r) ==
  LET headerIndex == indexOfUC(r.buf) IN
  IF headerIndex = -1 THEN [buf |-> <<>>, s |-> r.s, out |-> r.out, exit |-> TRUE]
  ELSE LET buf1 == IF headerIndex > 0 THEN sliceFrom(r.buf, headerIndex) ELSE r.buf IN
       IF Len(buf1) < 6 THEN [buf |-> buf1, s |-> r.s, out |-> r.out, exit |-> TRUE]
       ELSE IF readUInt16LE(buf1, 2) # 1
       THEN [buf |-> sliceFrom(buf1, 2), s |-> r.s, out |-> r.out, exit |-> FALSE]
       ELSE LET size == readUInt16LE(buf1, 4)
                totalSize == 6 + size
            IN  IF Len(buf1) < totalSize
                THEN [buf |-> buf1, s |-> r.s, out |-> r.out, exit |-> TRUE]
                ELSE extractPacket(buf1, totalSize, r)

\* A variant of handleIncomingData that enters the loop on the length of the
\* chunk, not of the buffer; the rest invariant tells the two apart.
handleIncomingData_chunkLength(data, buf, s) ==
  IF Len(data) < 6 THEN [buf |-> buf \o data, s |-> s, out |-> <<>>]
  ELSE reassemble([buf |-> buf \o data, s |-> s, out |-> <<>>])

handleIncomingData(data, buf, s) ==
  reassemble([buf |-> buf \o data, s |-> s, out |-> <<>>])

\* A variant of handleIncomingUDPData that hands every datagram to parsePacket;
\* the datagram property tells the two apart.
handleIncomingUDPData_noCheck(data, s) ==
  LET packet == parsePacket(data) IN
  IF packet.thrown THEN [s |-> [s EXCEPT !.err = @ + 1], out |-> <<>>]
  ELSE LET after == dispatch(packet, s) IN
       [s |-> IF after.thrown THEN [after EXCEPT !.thrown = FALSE, !.err = @ + 1]
              ELSE after,
        out |-> <<packet>>]

\* handleIncomingUDPData: [s, out]
handleIncomingUDPData(data, s) ==
  IF Len(data) >= 6 /\ toAscii(data, 0, 2) = str_UC /\ readUInt16LE(data, 2) = 1
  THEN LET packet == parsePacket(data) IN
       IF packet.thrown THEN [s |-> [s EXCEPT !.err = @ + 1], out |-> <<>>]
       ELSE LET after == dispatch(packet, s) IN
            [s |-> IF after.thrown THEN [after EXCEPT !.thrown = FALSE, !.err = @ + 1]
                   ELSE after,
             out |-> <<packet>>]
  ELSE [s |-> s, out |-> <<>>]

(***************************************************************************)
(* The command API.                                                        *)
(***************************************************************************)
\* this.tcpClient && !this.tcpClient.destroyed
writable(tcp) == tcp \in {"connecting", "open"}

sendPacket(packet, s) ==
  IF writable(s.tcp)
  THEN [s EXCEPT !.handed = Append(@, packet), !.wire = Append(@, packet)]
  ELSE [s EXCEPT !.handed = Append(@, packet), !.err = @ + 1]

checkFeedbacks(id, s) == [s EXCEPT !.fb = @ \cup {id}]

setMixerBypass(bypass, s) ==
  sendPacket(buildPVPacket(str_globalMixerBypass, floatOf(bypass)), s)

\* A variant of toggleMixerBypass that sends and keeps the value it read; the
\* toggle-negates property tells the two apart.
toggleMixerBypass_same(s) ==
  LET newBypassState == s.mb
  IN  [setMixerBypass(newBypassState, s) EXCEPT !.mb = newBypassState]

toggleMixerBypass(s) ==
  LET newBypassState == ~s.mb
  IN  [setMixerBypass(newBypassState, s) EXCEPT !.mb = newBypassState]

setChannelMute(channelNumber, mute, s) ==
  sendPacket(buildPVPacket(channelPath(channelNumber, "mute"), floatOf(mute)), s)

setChannelSolo(channelNumber, solo, s) ==
  sendPacket(buildPVPacket(channelPath(channelNumber, "solo"), floatOf(solo)), s)

setChannel48V(channelNumber, state, s) ==
  sendPacket(buildPVPacket(channelPath(channelNumber, "48v"), floatOf(state)), s)

setChannelHPF(channelNumber, state, s) ==
  sendPacket(buildPVPacket(channelPath(channelNumber, "hpf"), floatOf(state)), s)

setChannelPad(channelNumber, state, s) ==
  sendPacket(buildPVPacket(channelPath(channelNumber, "pad"), floatOf(state)), s)

\* channelStates[channelNumber][attr] = flag, on the object that is there
assignField(cs, channelNumber, attr, flag) ==
  putObject(cs, channelNumber, [objectOf(cs, channelNumber) EXCEPT ![attr] = triOf(flag)])

toggleChannelMute(channelNumber, s) ==
  LET currentState == objectOf(s.cs, channelNumber) IN
  checkFeedbacks("channel_mute_state",
    IF isBoolean(s.cs, channelNumber, "mute")
    THEN LET newMuteState == ~(currentState["mute"] = "true") IN
         [setChannelMute(channelNumber, newMuteState, s)
            EXCEPT !.cs = assignField(s.cs, channelNumber, "mute", newMuteState)]
    ELSE \* channelStates[channelNumber] = { mute: true }
         [setChannelMute(channelNumber, TRUE, s)
            EXCEPT !.cs = putObject(s.cs, channelNumber, [EmptyObject EXCEPT !["mute"] = "true"])])

toggleChannelSolo(channelNumber, s) ==
  LET currentState == objectOf(s.cs, channelNumber) IN
  checkFeedbacks("channel_solo_state",
    IF isBoolean(s.cs, channelNumber, "solo")
    THEN LET newSoloState == ~(currentState["solo"] = "true") IN
         [setChannelSolo(channelNumber, newSoloState, s)
            EXCEPT !.cs = assignField(s.cs, channelNumber, "solo", newSoloState)]
    ELSE \* channelStates[channelNumber] = { ...currentState, solo: true }
         [setChannelSolo(channelNumber, TRUE, s)
            EXCEPT !.cs = putObject(s.cs, channelNumber, [currentState EXCEPT !["solo"] = "true"])])

\* A variant of toggleChannel48V whose default for an unknown state is on; the
\* toggle-default property tells the two apart.
toggleChannel48V_defaultOn(channelNumber, s) ==
  LET currentState == objectOf(s.cs, channelNumber) IN
  IF isBoolean(s.cs, channelNumber, "48v")
  THEN LET new48VState == ~(currentState["48v"] = "true") IN
       [setChannel48V(channelNumber, new48VState, s)
          EXCEPT !.cs = assignField(s.cs, channelNumber, "48v", new48VState)]
  ELSE [setChannel48V(channelNumber, TRUE, s)
          EXCEPT !.cs = putObject(s.cs, channelNumber, [currentState EXCEPT !["48v"] = "true"])]

\* toggleChannel48V makes no checkFeedbacks call
toggleChannel48V(channelNumber, s) ==
  LET currentState == objectOf(s.cs, channelNumber) IN
  IF isBoolean(s.cs, channelNumber, "48v")
  THEN LET new48VState == ~(currentState["48v"] = "true") IN
       [setChannel48V(channelNumber, new48VState, s)
          EXCEPT !.cs = assignField(s.cs, channelNumber, "48v", new48VState)]
  ELSE [setChannel48V(channelNumber, FALSE, s)
          EXCEPT !.cs = putObject(s.cs, channelNumber, [currentState EXCEPT !["48v"] = "false"])]

\* A variant of toggleChannelHPF that sends and does not record what it sent;
\* the last-write-wins property tells the two apart.
toggleChannelHPF_noRecord(channelNumber, s) ==
  LET currentState == objectOf(s.cs, channelNumber) IN
  checkFeedbacks("channel_hpf_state",
    IF isBoolean(s.cs, channelNumber, "hpf")
    THEN setChannelHPF(channelNumber, ~(currentState["hpf"] = "true"), s)
    ELSE setChannelHPF(channelNumber, FALSE, s))

toggleChannelHPF(channelNumber, s) ==
  LET currentState == objectOf(s.cs, channelNumber) IN
  checkFeedbacks("channel_hpf_state",
    IF isBoolean(s.cs, channelNumber, "hpf")
    THEN LET newHPFState == ~(currentState["hpf"] = "true") IN
         [setChannelHPF(channelNumber, newHPFState, s)
            EXCEPT !.cs = assignField(s.cs, channelNumber, "hpf", newHPFState)]
    ELSE [setChannelHPF(channelNumber, FALSE, s)
            EXCEPT !.cs = putObject(s.cs, channelNumber, [currentState EXCEPT !["hpf"] = "false"])])

toggleChannelPad(channelNumber, s) ==
  LET currentState == objectOf(s.cs, channelNumber) IN
  checkFeedbacks("channel_pad_state",
    IF isBoolean(s.cs, channelNumber, "pad")
    THEN LET newPadState == ~(currentState["pad"] = "true") IN
         [setChannelPad(channelNumber, newPadState, s)
            EXCEPT !.cs = assignField(s.cs, channelNumber, "pad", newPadState)]
    ELSE [setChannelPad(channelNumber, FALSE, s)
            EXCEPT !.cs = putObject(s.cs, channelNumber, [currentState EXCEPT !["pad"] = "false"])])

\* The toggle the action of each attribute calls.
toggleChannel(attr, channelNumber, s) ==
  CASE attr = "mute" -> toggleChannelMute(channelNumber, s)
    [] attr = "solo" -> toggleChannelSolo(channelNumber, s)
    [] attr = "48v"  -> toggleChannel48V(channelNumber, s)
    [] attr = "hpf"  -> toggleChannelHPF(channelNumber, s)
    [] attr = "pad"  -> toggleChannelPad(channelNumber, s)

(***************************************************************************)
(* What the device sends.  A frame the decoder accepts carries the version *)
(* bytes 01 00 (readUInt16LE(2) = 1).                                      *)
(***************************************************************************)
acceptedHeader == <<85, 67, 1, 0>>

deviceFrame(type, body) ==
  LET payload == type \o writeUInt16LE(addr_a) \o writeUInt16LE(addr_b) \o body
  IN  acceptedHeader \o writeUInt16LE(Len(payload)) \o payload

pvBody(name, value) == name \o padding \o writeFloatLE(value)
zmBody(compressedData) == <<7, 0, 0, 0>> \o <<120, 156>> \o compressedData

float_minus_one == <<0, 0, 128, 191>>
float_nan == <<0, 0, 192, 127>>
float_tiny == <<1, 0, 0, 0>>
float_minus_zero == <<0, 0, 0, 128>>

CommandChannels == 1..MaxChannel
Ports == {50000}

\* line/ch0/mute, line/ch01/solo, line/ch1/gain, global/mixerBypassX,
\* xline/ch1/mute, line/ch/mute, Line/ch1/mute
OddNames ==
  { channelPath(0, "mute"),
    str_line_ch \o <<48, 49, 47>> \o attrBytes("solo"),
    str_line_ch \o <<49, 47, 103, 97, 105, 110>>,
    str_globalMixerBypass \o <<88>>,
    <<120>> \o channelPath(1, "mute"),
    str_line_ch \o <<47>> \o attrBytes("mute"),
    <<76>> \o Tail(channelPath(1, "mute")) }

DeltaFrames ==
  {deviceFrame(str_PV, pvBody(channelPath(ch, a), float_one)) :
     ch \in CommandChannels, a \in Attrs}
  \cup {deviceFrame(str_PV, pvBody(channelPath(ch, "mute"), float_zero)) : ch \in CommandChannels}
  \cup {deviceFrame(str_PV, pvBody(str_globalMixerBypass, v)) : v \in {float_one, float_zero}}
  \cup {deviceFrame(str_PV, pvBody(channelPath(1, "solo"), v)) :
          v \in {float_minus_one, float_nan, float_tiny, float_minus_zero}}
  \cup {deviceFrame(str_PV, pvBody(n, float_one)) : n \in OddNames}
  \cup { \* NUL bytes inside the name, and a name with no padding after it
         deviceFrame(str_PV, <<0>> \o str_line_ch \o <<0, 50, 47>> \o attrBytes("hpf")
                               \o writeFloatLE(float_one)),
         \* a body of three bytes
         deviceFrame(str_PV, <<0, 0, 0>>) }

SnapshotFrames ==
  {deviceFrame(str_ZM, zmBody(<<k>>)) : k \in 0..Len(Documents)}
  \cup { deviceFrame(str_ZM, zmBody(<<255, 255>>)),   \* a corrupt stream
         deviceFrame(str_ZM, <<1, 2>>) }               \* a body under 4 bytes

OtherFrames ==
  { deviceFrame(str_KA, <<>>),
    deviceFrame(str_JM, pvBody(channelPath(1, "mute"), float_one)),
    acceptedHeader \o <<2, 0, 80, 86>> }              \* a payload of two bytes

\* Frames as this module's own builders make them.
BuiltFrames ==
  {buildPVPacket(channelPath(ch, "mute"), v) :
     ch \in CommandChannels, v \in {float_one, float_zero}}
  \cup {buildPVPacket(str_globalMixerBypass, float_one)}

\* Chunks of more or less than one frame.
validFrame == deviceFrame(str_PV, pvBody(channelPath(1, "mute"), float_one))
laterFrame == deviceFrame(str_PV, pvBody(channelPath(2, "hpf"), float_one))

\* frames the reassembler extracts whose decoding or dispatch throws
FailingFrames ==
  { acceptedHeader \o <<2, 0, 80, 86>>,                \* payload of two bytes
    deviceFrame(str_PV, <<0, 0, 0>>),                  \* PV body of three bytes
    deviceFrame(str_ZM, <<1, 2>>) }                    \* ZM body of two bytes

\* snapshots whose blob does not inflate, or inflates to text that is no JSON
BadSnapshots ==
  { deviceFrame(str_ZM, zmBody(<<255, 255>>)), deviceFrame(str_ZM, zmBody(<<0>>)) }

\* the magic with a version other than 1, in front of a frame
BadVersionPrefixes == { str_UC, <<85, 67, 0>>, buildKAPacket }

ChunkFrames ==
  {f \o validFrame : f \in FailingFrames}
  \cup {f \o laterFrame : f \in BadSnapshots}
  \cup {f \o validFrame : f \in BadVersionPrefixes}
  \cup { laterFrame \o <<chr_U>> }                     \* and the first byte of the next

InboundFrames ==
  DeltaFrames \cup SnapshotFrames \cup OtherFrames \cup BuiltFrames \cup ChunkFrames

\* The datagrams of the model: one of each kind.
Datagrams ==
  { deviceFrame(str_PV, pvBody(channelPath(1, "pad"), float_one)),
    deviceFrame(str_PV, pvBody(str_globalMixerBypass, float_one)),
    deviceFrame(str_PV, pvBody(channelPath(0, "mute"), float_one)),
    deviceFrame(str_PV, <<0, 0, 0>>),
    deviceFrame(str_ZM, zmBody(<<2>>)),
    deviceFrame(str_ZM, zmBody(<<255, 255>>)),
    deviceFrame(str_KA, <<>>),
    buildPVPacket(channelPath(1, "mute"), float_one),
    <<1, 2, 3>> }

(***************************************************************************)
(* The session: Init is the state the constructor leaves.                  *)
(***************************************************************************)
Ev(op, ch, attr, flag, data) ==
  [op |-> op, ch |-> ch, attr |-> attr, flag |-> flag, data |-> data]
SessionEv(op) == Ev(op, 0, "none", FALSE, <<>>)

NoBuilt == [type |-> <<>>, addressPair |-> [a |-> 0, b |-> 0], body |-> <<>>, frame |-> <<>>]

Init ==
  /\ channelStates = [c \in {} |-> EmptyObject]
  /\ mixerBypassState = FALSE
  /\ receiveBuffer = <<>>
  /\ tcpClient = "none"
  /\ udpServer = "none"
  /\ udpPort = 0
  /\ status = "none"
  /\ wire = <<>>
  /\ handed = <<>>
  /\ feedbacks = {}
  /\ errors = 0
  /\ event = SessionEv("constructor")
  /\ nEvents = 0
  /\ stream = <<>>
  /\ yielded = <<>>
  /\ built = NoBuilt
  /\ decoded = NoPacket
  /\ heartbeatInterval = FALSE
  /\ staleSockets = 0
  /\ tcpCreated = 0
  /\ udpCreated = 0

unusedVars == <<stream, built, decoded>>
lifecycleVars == <<heartbeatInterval, staleSockets, tcpCreated, udpCreated>>

\* The context a handler starts from.
Now == Context(channelStates, mixerBypassState, tcpClient)

\* The state a handler leaves behind.
Handled(s, ev, out) ==
  /\ channelStates' = s.cs
  /\ mixerBypassState' = s.mb
  /\ wire' = s.wire
  /\ handed' = s.handed
  /\ feedbacks' = s.fb
  /\ errors' = s.err
  /\ event' = ev
  /\ yielded' = out

\* init(config): updateStatus('connecting'), initTCP(), initUDP(),
\* startHeartbeat()
InitModule ==
  /\ status = "none"
  /\ \E host \in BOOLEAN :
       /\ tcpClient' = IF host THEN "connecting" ELSE tcpClient
       /\ tcpCreated' = IF host THEN tcpCreated + 1 ELSE tcpCreated
       /\ udpServer' = "binding"
       /\ udpCreated' = udpCreated + 1
       /\ status' = "connecting"
       /\ heartbeatInterval' = TRUE
       /\ Handled(Now, SessionEv("init"), <<>>)
  /\ UNCHANGED <<receiveBuffer, udpPort, nEvents, staleSockets, unusedVars>>

\* the bind callback of initUDP
UdpListening ==
  /\ udpServer = "binding"
  /\ \E port \in Ports :
       /\ udpServer' = "bound"
       /\ udpPort' = port
       /\ Handled(Now, SessionEv("listening"), <<>>)
  /\ UNCHANGED <<receiveBuffer, tcpClient, status, nEvents, unusedVars, lifecycleVars>>

\* A variant of subscribeToDevice that subscribes before it announces the port;
\* the handshake-order property tells the two apart.
subscribeToDevice_jmFirst(s) == sendPacket(buildUMPacket(udpPort), sendPacket(buildJMPacket, s))

subscribeToDevice(s) == sendPacket(buildJMPacket, sendPacket(buildUMPacket(udpPort), s))

\* the connect callback of initTCP
TcpConnected ==
  /\ tcpClient = "connecting"
  /\ tcpClient' = "open"
  /\ status' = "ok"
  /\ Handled(subscribeToDevice(Context(channelStates, mixerBypassState, "open")),
             SessionEv("connect"), <<>>)
  /\ UNCHANGED <<receiveBuffer, udpServer, udpPort, nEvents, unusedVars, lifecycleVars>>

\* the 'error' listener of initTCP; the socket is destroyed by then
TcpError ==
  /\ tcpClient \in {"connecting", "open"}
  /\ tcpClient' = "errored"
  /\ status' = "connection_failure"
  /\ Handled([Now EXCEPT !.err = 1], SessionEv("error"), <<>>)
  /\ UNCHANGED <<receiveBuffer, udpServer, udpPort, nEvents, unusedVars, lifecycleVars>>

\* the 'close' listener of initTCP
TcpClose ==
  /\ tcpClient \in {"open", "errored"}
  /\ tcpClient' = "closed"
  /\ status' = "disconnected"
  /\ Handled(Now, SessionEv("close"), <<>>)
  /\ UNCHANGED <<receiveBuffer, udpServer, udpPort, nEvents, unusedVars, lifecycleVars>>

\* The actions of initActions are there once init has run.
CanHandle == status # "none" /\ nEvents < MaxEvents
sessionVars == <<receiveBuffer, tcpClient, udpServer, udpPort, status, unusedVars, lifecycleVars>>

SetMixerBypass ==
  /\ CanHandle
  /\ \E bypass \in BOOLEAN :
       Handled(setMixerBypass(bypass, Now), Ev("set_mixer_bypass", 0, "none", bypass, <<>>), <<>>)
  /\ nEvents' = nEvents + 1
  /\ UNCHANGED sessionVars

SetChannelMute ==
  /\ CanHandle
  /\ \E channel \in CommandChannels, mute \in BOOLEAN :
       Handled(setChannelMute(channel, mute, Now),
               Ev("set_channel_mute", channel, "mute", mute, <<>>), <<>>)
  /\ nEvents' = nEvents + 1
  /\ UNCHANGED sessionVars

ToggleChannel(attr) ==
  /\ CanHandle
  /\ \E channel \in CommandChannels :
       Handled(toggleChannel(attr, channel, Now),
               Ev("toggle_channel", channel, attr, FALSE, <<>>), <<>>)
  /\ nEvents' = nEvents + 1
  /\ UNCHANGED sessionVars

ToggleChannelMute == ToggleChannel("mute")
ToggleChannelSolo == ToggleChannel("solo")
ToggleChannel48V == ToggleChannel("48v")
ToggleChannelHPF == ToggleChannel("hpf")
ToggleChannelPad == ToggleChannel("pad")

ToggleMixerBypass ==
  /\ CanHandle
  /\ Handled(toggleMixerBypass(Now), Ev("toggle_mixer_bypass", 0, "none", FALSE, <<>>), <<>>)
  /\ nEvents' = nEvents + 1
  /\ UNCHANGED sessionVars

\* the 'data' listener of initTCP
TcpData ==
  /\ tcpClient = "open"
  /\ nEvents < MaxEvents
  /\ \E data \in InboundFrames :
       LET r == handleIncomingData(data, receiveBuffer, Now) IN
       /\ receiveBuffer' = r.buf
       /\ Handled(r.s, Ev("data", 0, "none", FALSE, data), r.out)
  /\ nEvents' = nEvents + 1
  /\ UNCHANGED <<tcpClient, udpServer, udpPort, status, unusedVars, lifecycleVars>>

\* the 'message' listener of initUDP
UdpMessage ==
  /\ udpServer = "bound"
  /\ nEvents < MaxEvents
  /\ \E data \in Datagrams :
       LET r == handleIncomingUDPData(data, Now) IN
       Handled(r.s, Ev("message", 0, "none", FALSE, data), r.out)
  /\ nEvents' = nEvents + 1
  /\ UNCHANGED sessionVars

Next ==
  \/ InitModule
  \/ UdpListening
  \/ TcpConnected
  \/ TcpError
  \/ TcpClose
  \/ SetMixerBypass
  \/ SetChannelMute
  \/ ToggleChannelMute
  \/ ToggleChannelSolo
  \/ ToggleChannel48V
  \/ ToggleChannelHPF
  \/ ToggleChannelPad
  \/ ToggleMixerBypass
  \/ TcpData
  \/ UdpMessage

Spec == Init /\ [][Next]_vars

(***************************************************************************)
(* The session's life cycle: the heartbeat timer, reconfiguration and the  *)
(* events of the sockets, with the commands and a few inbound frames.      *)
(***************************************************************************)
MaxReconfigs == 1

\* the callback of setInterval in startHeartbeat
HeartbeatTick ==
  /\ heartbeatInterval
  /\ Handled(sendPacket(buildKAPacket, Now), SessionEv("heartbeat"), <<>>)
  /\ UNCHANGED <<nEvents, sessionVars>>

\* a socket initTCP destroyed has its 'close' event still to come
closePending(tcp) == tcp \in {"connecting", "open", "errored"}

\* configUpdated(config): initTCP(), initUDP().  udpServer.close() throws on a
\* socket the 'error' listener closed already; event.flag tells that it threw.
ConfigUpdated ==
  /\ status # "none"
  /\ tcpCreated <= MaxReconfigs
  /\ udpCreated <= MaxReconfigs
  /\ \E host \in BOOLEAN :
       /\ tcpClient' = IF host THEN "connecting" ELSE "none"
       /\ tcpCreated' = IF host THEN tcpCreated + 1 ELSE tcpCreated
       /\ staleSockets' = IF closePending(tcpClient) THEN staleSockets + 1 ELSE staleSockets
       /\ IF udpServer = "closed"
          THEN /\ UNCHANGED <<udpServer, udpCreated>>
               /\ Handled(Now, Ev("config_updated", 0, "none", TRUE, <<>>), <<>>)
          ELSE /\ udpServer' = "binding"
               /\ udpCreated' = udpCreated + 1
               /\ Handled(Now, Ev("config_updated", 0, "none", FALSE, <<>>), <<>>)
  /\ UNCHANGED <<receiveBuffer, udpPort, status, nEvents, heartbeatInterval, unusedVars>>

\* the 'close' listener of a socket that initTCP destroyed and replaced
StaleClose ==
  /\ staleSockets > 0
  /\ staleSockets' = staleSockets - 1
  /\ status' = "disconnected"
  /\ Handled(Now, Ev("close", 0, "none", TRUE, <<>>), <<>>)
  /\ UNCHANGED <<receiveBuffer, tcpClient, udpServer, udpPort, nEvents, heartbeatInterval,
                 tcpCreated, udpCreated, unusedVars>>

\* the 'error' listener of initUDP: log and close
UdpError ==
  /\ udpServer \in {"binding", "bound"}
  /\ udpServer' = "closed"
  /\ Handled([Now EXCEPT !.err = 1], SessionEv("udp_error"), <<>>)
  /\ UNCHANGED <<receiveBuffer, tcpClient, udpPort, status, nEvents, unusedVars, lifecycleVars>>

SessionFrames ==
  { deviceFrame(str_PV, pvBody(channelPath(1, "mute"), float_one)),
    deviceFrame(str_KA, <<>>),
    \* a chunk that ends inside a frame: the header and two bytes of the payload
    SubSeq(validFrame, 1, 8) }

SessionDatagrams == { deviceFrame(str_PV, pvBody(str_globalMixerBypass, float_one)) }

\* the 'data' listener of initTCP
SessionTcpData ==
  /\ tcpClient = "open"
  /\ nEvents < MaxEvents
  /\ \E data \in SessionFrames :
       LET r == handleIncomingData(data, receiveBuffer, Now) IN
       /\ receiveBuffer' = r.buf
       /\ Handled(r.s, Ev("data", 0, "none", FALSE, data), r.out)
  /\ nEvents' = nEvents + 1
  /\ UNCHANGED <<tcpClient, udpServer, udpPort, status, unusedVars, lifecycleVars>>

\* the 'message' listener of initUDP
SessionUdpMessage ==
  /\ udpServer = "bound"
  /\ nEvents < MaxEvents
  /\ \E data \in SessionDatagrams :
       LET r == handleIncomingUDPData(data, Now) IN
       Handled(r.s, Ev("message", 0, "none", FALSE, data), r.out)
  /\ nEvents' = nEvents + 1
  /\ UNCHANGED sessionVars

NextSession ==
  \/ InitModule
  \/ UdpListening
  \/ UdpError
  \/ TcpConnected
  \/ TcpError
  \/ TcpClose
  \/ StaleClose
  \/ ConfigUpdated
  \/ HeartbeatTick
  \/ SetMixerBypass
  \/ SetChannelMute
  \/ ToggleChannelMute
  \/ ToggleMixerBypass
  \/ SessionTcpData
  \/ SessionUdpMessage

SpecSession == Init /\ [][NextSession]_vars

(***************************************************************************)
(* Codec runs: a builder makes a frame, parsePacket reads it back.         *)
(* built holds the message the builder was given (the type, addressPair    *)
(* and body it lays out) and the frame it returned.                        *)
(***************************************************************************)
CodecPorts == {0, 1, 255, 256, 49162, 65535}
CodecNames ==
  {channelPath(ch, a) : ch \in 0..MaxChannel, a \in Attrs}
  \cup {str_globalMixerBypass, <<>>, channelPath(12, "mute")}
CodecValues ==
  {float_one, float_zero, float_minus_one, float_nan, float_tiny, float_minus_zero}

Message(type, a, b, body) == [type |-> type, addressPair |-> [a |-> a, b |-> b], body |-> body]

sessionIdle ==
  /\ channelStates = [c \in {} |-> EmptyObject]
  /\ mixerBypassState = FALSE
  /\ receiveBuffer = <<>>
  /\ tcpClient = "open"
  /\ udpServer = "bound"
  /\ udpPort = 50000
  /\ status = "ok"
  /\ wire = <<>>
  /\ handed = <<>>
  /\ feedbacks = {}
  /\ errors = 0
  /\ nEvents = 0
  /\ yielded = <<>>
  /\ heartbeatInterval = TRUE
  /\ staleSockets = 0
  /\ tcpCreated = 1
  /\ udpCreated = 1

InitCodec ==
  /\ sessionIdle
  /\ event = SessionEv("codec")
  /\ stream = <<>>
  /\ built = NoBuilt
  /\ decoded = NoPacket

codecFrame == <<channelStates, mixerBypassState, receiveBuffer, tcpClient, udpServer, udpPort,
                status, wire, handed, feedbacks, errors, nEvents, stream, yielded,
                heartbeatInterval, staleSockets, tcpCreated, udpCreated>>

Build(message, frame) ==
  /\ event.op = "codec"
  /\ built' = [type |-> message.type, addressPair |-> message.addressPair,
               body |-> message.body, frame |-> frame]
  /\ event' = SessionEv("built")
  /\ UNCHANGED <<decoded, codecFrame>>

BuildUM ==
  \E port \in CodecPorts :
    Build(Message(str_UM, addr_a_UM, addr_b, writeUInt16LE(port)), buildUMPacket(port))

BuildJM ==
  Build(Message(str_JM, addr_a, addr_b, writeUInt32LE(Len(subMsgBuffer)) \o subMsgBuffer),
        buildJMPacket)

BuildKA == Build(Message(str_KA, addr_a, addr_b, <<>>), buildKAPacket)

BuildPV ==
  \E name \in CodecNames, value \in CodecValues :
    Build(Message(str_PV, addr_a, addr_b, name \o padding \o writeFloatLE(value)),
          buildPVPacket(name, value))

Decode ==
  /\ event.op = "built"
  /\ decoded' = parsePacket(built.frame)
  /\ event' = SessionEv("decoded")
  /\ UNCHANGED <<built, codecFrame>>

\* Byte sequences handed to parsePacket as they are: the header the decoders
\* accept with every declared length up to MaxPayload and one byte less, as
\* many and one byte more than declared after it, and sequences that are
\* short, have another magic or another version.
MaxPayload == 7
payloadBytes == <<80, 86, 104, 0, 102, 0, 1, 2, 3>>

RawInputs ==
  UNION {{acceptedHeader \o writeUInt16LE(n) \o SubSeq(payloadBytes, 1, k) :
            k \in {j \in 0..Len(payloadBytes) : j \in (n - 1)..(n + 1)}} :
         n \in 0..MaxPayload}
  \cup { <<>>, <<85, 67, 1>>, <<85, 67, 1, 0, 0>>,
         <<85, 68, 1, 0, 0, 0>>, <<117, 67, 1, 0, 0, 0>>,
         <<85, 67, 0, 1, 0, 0>>, <<85, 67, 2, 0, 0, 0>>, <<85, 67, 1, 1, 0, 0>>,
         buildKAPacket }

DecodeRaw ==
  /\ event.op = "codec"
  /\ \E data \in RawInputs :
       /\ built' = [NoBuilt EXCEPT !.frame = data]
       /\ decoded' = parsePacket(data)
  /\ event' = SessionEv("decoded_raw")
  /\ UNCHANGED codecFrame

NextCodec == BuildUM \/ BuildJM \/ BuildKA \/ BuildPV \/ Decode \/ DecodeRaw

SpecCodec == InitCodec /\ [][NextCodec]_vars

(***************************************************************************)
(* Reassembler runs: the peer holds a byte sequence (garbage, then whole   *)
(* frames) and delivers it in chunks of any sizes; every chunk is one      *)
(* 'data' event.  yielded, feedbacks and errors run over the whole stream;  *)
(* event.flag tells that an earlier chunk came before the last one.        *)
(***************************************************************************)
ReasmFrames ==
  { deviceFrame(str_PV, pvBody(channelPath(1, "mute"), float_one)),
    deviceFrame(str_KA, <<>>),
    deviceFrame(str_ZM, zmBody(<<4>>)),
    \* a frame of a type with no handler whose payload holds the magic and a header
    deviceFrame(str_UC, <<85, 67, 1, 0, 0, 0, 85>>),
    deviceFrame(str_PV, pvBody(str_globalMixerBypass, float_zero)) }

GarbageBytes == {0, 120}
GarbageFrame == deviceFrame(str_PV, pvBody(channelPath(2, "solo"), float_one))

RECURSIVE concat(_)
concat(frames) == IF Len(frames) = 0 THEN <<>> ELSE Head(frames) \o concat(Tail(frames))

RECURSIVE SeqsUpTo(_, _)
SeqsUpTo(S, n) ==
  IF n = 0 THEN {<<>>}
  ELSE LET shorter == SeqsUpTo(S, n - 1)
       IN  shorter \cup {Append(q, x) : q \in {t \in shorter : Len(t) = n - 1}, x \in S}

Streams ==
  {[garbage |-> <<>>, frames |-> fs, rest |-> concat(fs)] :
     fs \in SeqsUpTo(ReasmFrames, MaxFrames) \ {<<>>}}
  \cup {[garbage |-> g, frames |-> <<GarbageFrame>>, rest |-> g \o GarbageFrame] :
          g \in SeqsUpTo(GarbageBytes, MaxGarbage) \ {<<>>}}

InitReasm ==
  /\ sessionIdle
  /\ event = SessionEv("stream")
  /\ stream \in Streams
  /\ built = NoBuilt
  /\ decoded = NoPacket

Feed ==
  /\ Len(stream.rest) > 0
  /\ \E k \in 1..Len(stream.rest) :
       LET data == SubSeq(stream.rest, 1, k)
           r == handleIncomingData(data, receiveBuffer, Now)
       IN  /\ receiveBuffer' = r.buf
           /\ channelStates' = r.s.cs
           /\ mixerBypassState' = r.s.mb
           /\ feedbacks' = feedbacks \cup r.s.fb
           /\ errors' = errors + r.s.err
           /\ yielded' = yielded \o r.out
           /\ event' = Ev("data", 0, "none", event.op = "data", <<>>)
           /\ stream' = [stream EXCEPT !.rest = SubSeq(stream.rest, k + 1, Len(stream.rest))]
  /\ UNCHANGED <<tcpClient, udpServer, udpPort, status, wire, handed, nEvents, built, decoded,
               lifecycleVars>>

NextReasm == Feed

SpecReasm == InitReasm /\ [][NextReasm]_vars

(***************************************************************************)
(* The state query API: what the feedback callbacks read.                  *)
(***************************************************************************)
\* channelState && typeof channelState[attr] === 'boolean' ? value : null
channelFeedback(cs, channel, attr) == objectOf(cs, channel)[attr]

\* typeof this.mixerBypassState === 'boolean' ? value : null
mixerBypassFeedback(mb) == triOf(mb)

(***************************************************************************)
(* Vocabulary of the properties.                                           *)
(***************************************************************************)
ChannelsOf(cs1, cs2) == DOMAIN cs1 \cup DOMAIN cs2 \cup (0..MaxChannel)

\* every channel attribute outside `touched` reads the same in cs1 and cs2
SameExcept(cs1, cs2, touched) ==
  \A ch \in ChannelsOf(cs1, cs2), a \in Attrs :
    <<ch, a>> \notin touched => channelFeedback(cs1, ch, a) = channelFeedback(cs2, ch, a)

\* the name and the value a PV frame carries after its 12 bytes of headers
pvValueOf(frame) == SubSeq(frame, Len(frame) - 3, Len(frame))
pvNameOf(frame) == SubSeq(frame, 13, Len(frame) - 7)
isPVFrameFor(frame, name, value) ==
  /\ Len(frame) = 12 + Len(name) + 7
  /\ SubSeq(frame, 7, 8) = str_PV
  /\ pvNameOf(frame) = name
  /\ SubSeq(frame, Len(frame) - 6, Len(frame) - 4) = <<0, 0, 0>>
  /\ pvValueOf(frame) = value

Inbound(op) == op \in {"data", "message"}

\* the last event was a 'data' or 'message' event whose bytes are one frame of
\* the type given, under the header the decoders accept
InboundOfType(type) ==
  /\ Inbound(event.op)
  /\ Len(event.data) >= 8
  /\ SubSeq(event.data, 1, 4) = acceptedHeader
  /\ SubSeq(event.data, 7, 8) = type

(***************************************************************************)
(* C1.  Round-trip law: the frame every builder (UM, JM, KA, PV) makes is  *)
(* accepted by parsePacket and gives back the type, addressPair and body   *)
(* the builder laid out.                                                   *)
(***************************************************************************)
C1_RoundTrip ==
  event.op = "decoded" =>
    /\ ~decoded.thrown
    /\ decoded.type = built.type
    /\ decoded.addressPair = built.addressPair
    /\ decoded.data = built.body

(***************************************************************************)
(* C2.  Chunk-boundary independence: a sequence of valid frames delivered  *)
(* in chunks of any sizes leaves the same packets dispatched, the same     *)
(* store and the same carry-over buffer as the sequence delivered in one   *)
(* chunk, and every frame of the sequence is among the packets.            *)
(***************************************************************************)
C2_ChunkIndependence ==
  (stream.garbage = <<>> /\ stream.rest = <<>>) =>
    LET whole == handleIncomingData(concat(stream.frames), <<>>,
                                    Context([c \in {} |-> EmptyObject], FALSE, "open"))
    IN  /\ yielded = whole.out
        /\ channelStates = whole.s.cs
        /\ mixerBypassState = whole.s.mb
        /\ receiveBuffer = whole.buf
        /\ errors = whole.s.err
        /\ yielded = [i \in 1..Len(stream.frames) |-> parsePacket(stream.frames[i])]

\* two frames delivered in more than one chunk, both dispatched
C2_Witness ==
  /\ stream.garbage = <<>>
  /\ stream.rest = <<>>
  /\ Len(stream.frames) = 2
  /\ event.flag
  /\ Len(yielded) = 2
  /\ channelFeedback(channelStates, 1, "mute") = "true"

(***************************************************************************)
(* C3.  Garbage tolerance: garbage bytes followed by one valid frame,      *)
(* delivered in any chunking, yield exactly that frame, and nothing of the *)
(* garbage is left in the carry-over buffer.                               *)
(***************************************************************************)
C3_GarbageThenFrame ==
  (stream.garbage # <<>> /\ stream.rest = <<>>) =>
    /\ yielded = <<parsePacket(stream.frames[1])>>
    /\ receiveBuffer = <<>>

(***************************************************************************)
(* C4.  End-to-end delta then toggle: a PV frame made by buildPVPacket for *)
(* line/ch<N>/<attr> with value v, received by the 'data' handler, makes   *)
(* the store report that attribute as (v > 0).                             *)
(***************************************************************************)
C4_BuiltDeltaThenToggle ==
  \A ch \in CommandChannels, a \in Attrs, v \in {float_one, float_zero} :
    (event.op = "data" /\ event.data = buildPVPacket(channelPath(ch, a), v))
      => channelFeedback(channelStates, ch, a) = triOf(FloatGT0(v))

(***************************************************************************)
(* C5.  Toggle with unknown prior state: toggling mute or solo of a        *)
(* channel whose attribute is unknown hands sendPacket one PV frame for    *)
(* that path with value 1.0 and records the attribute as true; toggling    *)
(* 48v, hpf or pad hands it one with value 0.0 and records false.  The     *)
(* frame is written to the socket whenever the socket is writable.         *)
(***************************************************************************)
toggleDefault(attr) == attr \in {"mute", "solo"}

C5_ToggleUnknown ==
  [][\A ch \in CommandChannels, a \in Attrs :
       ( /\ event'.op = "toggle_channel" /\ event'.ch = ch /\ event'.attr = a
         /\ channelFeedback(channelStates, ch, a) = "undefined" )
       => /\ Len(handed') = 1
          /\ isPVFrameFor(handed'[1], channelPath(ch, a), floatOf(toggleDefault(a)))
          /\ pvValueOf(handed'[1]) = IF toggleDefault(a) THEN <<0, 0, 128, 63>> ELSE <<0, 0, 0, 0>>
          /\ (writable(tcpClient) => wire' = handed')
          /\ channelFeedback(channelStates', ch, a) = triOf(toggleDefault(a))
    ]_vars

\* the first event of a connected session toggles 48v of channel 1
C5_Witness ==
  /\ nEvents = 1
  /\ event.op = "toggle_channel" /\ event.ch = 1 /\ event.attr = "48v"
  /\ channelFeedback(channelStates, 1, "48v") = "false"
  /\ Len(wire) = 1
  /\ pvValueOf(wire[1]) = <<0, 0, 0, 0>>

(***************************************************************************)
(* C6.  Toggle with known prior state: a toggle of a channel attribute     *)
(* whose value b is known hands sendPacket one PV frame for that path      *)
(* carrying not b, and the store then reports not b.  A toggle of the      *)
(* global bypass does the same with mixerBypassState, which is false until *)
(* observed: the first toggle of a fresh session carries 1.0, and two      *)
(* toggles in a row carry opposite values and restore the stored value.    *)
(***************************************************************************)
C6_ToggleKnown ==
  [][/\ \A ch \in CommandChannels, a \in Attrs :
          ( /\ event'.op = "toggle_channel" /\ event'.ch = ch /\ event'.attr = a
            /\ channelFeedback(channelStates, ch, a) # "undefined" )
          => LET b == channelFeedback(channelStates, ch, a) = "true" IN
             /\ Len(handed') = 1
             /\ isPVFrameFor(handed'[1], channelPath(ch, a), floatOf(~b))
             /\ (writable(tcpClient) => wire' = handed')
             /\ channelFeedback(channelStates', ch, a) = triOf(~b)
     /\ event'.op = "toggle_mixer_bypass"
          => /\ Len(handed') = 1
             /\ isPVFrameFor(handed'[1], str_globalMixerBypass, floatOf(~mixerBypassState))
             /\ (writable(tcpClient) => wire' = handed')
             /\ mixerBypassState' = ~mixerBypassState
             /\ (nEvents = 0 => pvValueOf(handed'[1]) = <<0, 0, 128, 63>>)
             /\ (event.op = "toggle_mixer_bypass"
                   => /\ pvValueOf(handed'[1]) # pvValueOf(handed[1])
                      /\ mixerBypassState' = (pvValueOf(handed[1]) = <<0, 0, 0, 0>>))
    ]_vars

\* a known true attribute was toggled: 0.0 went out and the store says false
C6_Witness ==
  /\ nEvents = 2
  /\ event.op = "toggle_channel" /\ event.ch = 2 /\ event.attr = "pad"
  /\ channelFeedback(channelStates, 2, "pad") = "false"
  /\ Len(wire) = 1
  /\ isPVFrameFor(wire[1], channelPath(2, "pad"), float_zero)

(***************************************************************************)
(* C7.  Snapshot update is a merge: after a ZM snapshot is applied, the    *)
(* channel attributes and the global bypass whose keys the document holds  *)
(* read (document value > 0); every other attribute of every channel, and  *)
(* the bypass when the document has no mixerBypass key, read as before.    *)
(***************************************************************************)
\* the places of line.children that give channel ch a value for attr
keyPlaces(doc, ch, attr) ==
  {i \in 1..Len(doc.line.children) :
     LET e == doc.line.children[i] IN
     /\ doc.line.present
     /\ Len(e.key) > 2 /\ SubSeq(e.key, 1, 2) = <<99, 104>>
     /\ \A j \in 3..Len(e.key) : e.key[j] \in 48..57
     /\ parseInt(SubSeq(e.key, 3, Len(e.key))) = ch
     /\ e.hasValues
     /\ attr \in DOMAIN e.values}

\* the value the document gives: that of the last such place
documentValue(doc, ch, attr) ==
  LET places == keyPlaces(doc, ch, attr)
      last == CHOOSE i \in places : \A j \in places : j <= i
  IN  doc.line.children[last].values[attr]

C7_SnapshotMerge ==
  [][\A k \in 1..Len(Documents) :
       (InboundOfType(str_ZM)' /\ event'.data = deviceFrame(str_ZM, zmBody(<<k>>)))
       => LET doc == Documents[k] IN
          /\ \A ch \in ChannelsOf(channelStates, channelStates'), a \in Attrs :
               channelFeedback(channelStates', ch, a) =
                 IF keyPlaces(doc, ch, a) # {}
                 THEN triOf(documentValue(doc, ch, a) > 0)
                 ELSE channelFeedback(channelStates, ch, a)
          /\ mixerBypassState' =
               IF doc.global.present /\ "mixerBypass" \in DOMAIN doc.global.values
               THEN doc.global.values["mixerBypass"] > 0
               ELSE mixerBypassState
    ]_vars

\* the snapshot with ch1 mute = 1 and no solo key came after solo of channel
\* 1 was known: mute reads true and solo still reads what it did
C7_Witness ==
  /\ nEvents = 2
  /\ event.op = "data"
  /\ event.data = deviceFrame(str_ZM, zmBody(<<1>>))
  /\ channelFeedback(channelStates, 1, "mute") = "true"
  /\ channelFeedback(channelStates, 1, "solo") = "false"

(***************************************************************************)
(* C8.  Delta update: a PV message whose body is a name and a 4-byte float *)
(* sets exactly one parameter.  The name is what stands before the last 4  *)
(* bytes, NUL bytes dropped; global/mixerBypass sets mixerBypassState to   *)
(* (value > 0) and leaves every channel; line/ch<N>/<attr> sets that       *)
(* attribute of channel N to (value > 0) and leaves every other attribute, *)
(* every other channel and the bypass.                                     *)
(***************************************************************************)
\* line/ch2/hpf with a NUL in front and one inside, and no padding
nulNameBody == <<0>> \o str_line_ch \o <<0, 50, 47>> \o attrBytes("hpf") \o float_one

DeltaValues ==
  {float_one, float_zero, float_minus_one, float_nan, float_tiny, float_minus_zero}

\* float_one and float_tiny are the values above zero
isPositive(v) == v \in {float_one, float_tiny}

\* the frames of the delta updates for line/ch<N>/<attr> and for the bypass
ChannelDeltas ==
  {[data |-> deviceFrame(str_PV, pvBody(channelPath(ch, a), v)), ch |-> ch, a |-> a, v |-> v] :
     ch \in CommandChannels, a \in Attrs, v \in DeltaValues}

GlobalDeltas ==
  {[data |-> deviceFrame(str_PV, pvBody(str_globalMixerBypass, v)), v |-> v] : v \in DeltaValues}

C8_ChannelDelta(data, ch, a, v) ==
  event'.data = data
  => /\ channelFeedback(channelStates', ch, a) = triOf(isPositive(v))
     /\ SameExcept(channelStates, channelStates', {<<ch, a>>})
     /\ mixerBypassState' = mixerBypassState

C8_DeltaUpdate ==
  [][InboundOfType(str_PV)' =>
       /\ \A d \in ChannelDeltas : C8_ChannelDelta(d.data, d.ch, d.a, d.v)
       /\ C8_ChannelDelta(deviceFrame(str_PV, nulNameBody), 2, "hpf", float_one)
       /\ \A d \in GlobalDeltas :
            event'.data = d.data
            => /\ mixerBypassState' = isPositive(d.v)
               /\ SameExcept(channelStates, channelStates', {})
    ]_vars

\* mute of channel 1 was known, then the delta with the NULs in its name set
\* hpf of channel 2: both read as set
C8_Witness ==
  /\ nEvents = 2
  /\ event.op = "data"
  /\ event.data = deviceFrame(str_PV, nulNameBody)
  /\ channelFeedback(channelStates, 2, "hpf") = "true"
  /\ channelFeedback(channelStates, 1, "mute") = "false"

(***************************************************************************)
(* C9.  Unrecognized input changes nothing: a PV message whose path is     *)
(* neither global/mixerBypass nor line/ch<N>/<attr> with N a positive      *)
(* integer and attr one of mute, solo, 48v, hpf, pad, and a message of a   *)
(* type other than ZM and PV, leave the store as it was, log no error and  *)
(* leave nothing in the carry-over buffer.                                 *)
(***************************************************************************)
\* the paths of the model the claim counts as recognized
RecognizedNames ==
  {str_globalMixerBypass}
  \cup {channelPath(ch, a) : ch \in CommandChannels, a \in Attrs}
  \cup {str_line_ch \o <<48, 49, 47>> \o attrBytes("solo")}

UnrecognizedFrames ==
  {deviceFrame(str_PV, pvBody(n, float_one)) : n \in OddNames \ RecognizedNames}
  \cup {deviceFrame(str_KA, <<>>),
        deviceFrame(str_JM, pvBody(channelPath(1, "mute"), float_one))}

C9_UnrecognizedIgnored ==
  [][(Inbound(event'.op) /\ event'.data \in UnrecognizedFrames)
       => /\ SameExcept(channelStates, channelStates', {})
          /\ DOMAIN channelStates' = DOMAIN channelStates
          /\ mixerBypassState' = mixerBypassState
          /\ errors' = 0
          /\ event'.op = "data" => receiveBuffer' = <<>>
          /\ event'.op = "message" => receiveBuffer' = receiveBuffer
    ]_vars

(***************************************************************************)
(* C10.  Tri-state reads: until the first inbound update or toggle, every  *)
(* channel attribute and the global bypass read as unknown in the state    *)
(* query API.                                                              *)
(***************************************************************************)
C10_UnknownUntilObserved ==
  (status # "none" /\ nEvents = 0) =>
    /\ \A ch \in 0..MaxChannel, a \in Attrs : channelFeedback(channelStates, ch, a) = "undefined"
    /\ mixerBypassFeedback(mixerBypassState) = "undefined"

(***************************************************************************)
(* C11.  Known state is never lost: an attribute of a channel that reads   *)
(* true or false reads true or false after every step of the session.      *)
(***************************************************************************)
C11_KnownStaysKnown ==
  [][\A ch \in ChannelsOf(channelStates, channelStates'), a \in Attrs :
       channelFeedback(channelStates, ch, a) # "undefined"
         => channelFeedback(channelStates', ch, a) # "undefined"
    ]_vars

(***************************************************************************)
(* C12.  Handshake ordering: the connect callback hands the socket the UM  *)
(* frame and then the JM frame and nothing else, and sets the status to    *)
(* ok; a socket becomes open by that callback only, and frames are taken   *)
(* from an open socket only, so none is processed before the handshake.    *)
(***************************************************************************)
C12_HandshakeOrder ==
  [][/\ event'.op = "connect"
          => /\ wire' = <<buildUMPacket(udpPort), buildJMPacket>>
             /\ handed' = wire'
             /\ status' = "ok"
     /\ (tcpClient' = "open" /\ tcpClient # "open") => event'.op = "connect"
     /\ event'.op = "data" => tcpClient = "open"
    ]_vars

\* connected after the UDP socket was bound: UM carries its port, JM follows
C12_Witness ==
  /\ event.op = "connect"
  /\ udpPort = 50000
  /\ status = "ok"
  /\ wire = <<buildUMPacket(50000), buildJMPacket>>

(***************************************************************************)
(* C13.  Writes while not writable are failed no-ops: a command or a       *)
(* heartbeat tick while the TCP socket is not connected (none, connecting, *)
(* errored, closed) hands no bytes to the socket and logs an error.        *)
(***************************************************************************)
SendingOps ==
  {"set_mixer_bypass", "set_channel_mute", "toggle_channel", "toggle_mixer_bypass", "heartbeat"}

C13_NotWritableNoOp ==
  [][(event'.op \in SendingOps /\ tcpClient # "open")
       => /\ wire' = <<>>
          /\ errors' = Len(handed')
          /\ Len(handed') = 1
    ]_vars

(***************************************************************************)
(* C14.  On the 'error' or 'close' event of the session's socket the       *)
(* session is disconnected, the heartbeat timer is stopped, so that no     *)
(* heartbeat tick follows while the socket is errored or closed, and no    *)
(* socket is created.                                                      *)
(***************************************************************************)
C14_ErrorOrCloseStopsHeartbeat ==
  [][/\ (event'.op \in {"error", "close"} /\ ~event'.flag)
          => /\ status' \in {"connection_failure", "disconnected"}
             /\ tcpClient' \in {"errored", "closed"}
             /\ tcpCreated' = tcpCreated
             /\ ~heartbeatInterval'
     /\ event'.op = "heartbeat" => tcpClient \notin {"errored", "closed"}
    ]_vars

(***************************************************************************)
(* C15.  Reconfiguration with a host, from any state after init in which   *)
(* the UDP socket is not closed, destroys the TCP and the UDP socket,      *)
(* creates a new one of each, and sets the status to connecting, where it  *)
(* stays until the new TCP socket connects or fails.                       *)
(***************************************************************************)
C15_ReconfigureReconnects ==
  [][/\ (event'.op = "config_updated" /\ tcpClient' = "connecting" /\ ~event'.flag)
          => /\ tcpCreated' = tcpCreated + 1
             /\ udpCreated' = udpCreated + 1
             /\ udpServer' = "binding"
             /\ status' = "connecting"
     /\ (tcpClient = "connecting" /\ tcpClient' = "connecting" /\ status = "connecting")
          => status' = "connecting"
    ]_vars

(***************************************************************************)
(* C16.  Every command applies an optimistic update: right after a set or  *)
(* a toggle command, the store reads the value the command's PV frame      *)
(* carries, for the global bypass and for each channel attribute.          *)
(***************************************************************************)
C16_OptimisticUpdate ==
  [][/\ event'.op = "set_mixer_bypass"
          => mixerBypassFeedback(mixerBypassState') = triOf(event'.flag)
     /\ event'.op = "set_channel_mute"
          => channelFeedback(channelStates', event'.ch, "mute") = triOf(event'.flag)
     /\ event'.op = "toggle_mixer_bypass"
          => /\ Len(handed') = 1
             /\ mixerBypassFeedback(mixerBypassState') = triOf(FloatGT0(pvValueOf(handed'[1])))
     /\ event'.op = "toggle_channel"
          => /\ Len(handed') = 1
             /\ channelFeedback(channelStates', event'.ch, event'.attr)
                  = triOf(FloatGT0(pvValueOf(handed'[1])))
    ]_vars

(***************************************************************************)
(* C17.  A ZM message whose blob does not inflate, or inflates to text     *)
(* that is no JSON, is reported and dropped: one error is logged, every    *)
(* channel attribute and the bypass read as before, and a frame that       *)
(* follows it in the same chunk is processed as usual.                     *)
(***************************************************************************)
C17_BadSnapshotDropped ==
  [][\A f \in BadSnapshots :
       /\ (Inbound(event'.op) /\ event'.data = f)
            => /\ errors' = 1
               /\ SameExcept(channelStates, channelStates', {})
               /\ mixerBypassState' = mixerBypassState
               /\ event'.op = "data" => receiveBuffer' = <<>>
       /\ (event'.op = "data" /\ event'.data = f \o laterFrame)
            => /\ errors' = 1
               /\ channelFeedback(channelStates', 2, "hpf") = "true"
               /\ SameExcept(channelStates, channelStates', {<<2, "hpf">>})
               /\ mixerBypassState' = mixerBypassState
               /\ Len(yielded') = 2
               /\ receiveBuffer' = <<>>
    ]_vars

\* mute of channel 1 was known; the chunk with the corrupt snapshot and the
\* delta for hpf of channel 2 logged one error and set hpf
C17_Witness ==
  /\ nEvents = 2
  /\ event.op = "data"
  /\ event.data = deviceFrame(str_ZM, zmBody(<<255, 255>>)) \o laterFrame
  /\ errors = 1
  /\ channelFeedback(channelStates, 1, "mute") = "true"
  /\ channelFeedback(channelStates, 2, "hpf") = "true"

(***************************************************************************)
(* C18.  UDP datagrams bypass the reassembler: handling a datagram leaves  *)
(* the carry-over buffer as it is; a datagram that is one complete frame   *)
(* has the effect the same frame has over TCP with nothing carried over;   *)
(* a datagram without the magic and version 1 changes nothing and logs     *)
(* nothing; a datagram whose decoding fails changes nothing in the store   *)
(* and no exception leaves the handler.                                    *)
(***************************************************************************)
\* one frame, whole, under the magic and version 1
isOneFrame(d) ==
  /\ Len(d) >= 6
  /\ SubSeq(d, 1, 4) = acceptedHeader
  /\ Len(d) = 6 + readUInt16LE(d, 4)

C19_FrameAfterCorruptFrame ==
  [][\A f \in FailingFrames :
       (event'.op = "data" /\ event'.data = f \o validFrame)
         => /\ channelFeedback(channelStates', 1, "mute") = "true"
            /\ receiveBuffer' = <<>>
    ]_vars

(***************************************************************************)
(* C20.  Wrong-version resynchronization: when the buffer has 6 bytes or   *)
(* more and starts with the magic and a version other than 1, the first 2  *)
(* bytes are discarded and the search starts again on the rest, so the     *)
(* outcome is that of the buffer without its first 2 bytes, and a frame    *)
(* that begins later in the buffer is extracted and dispatched.            *)
(***************************************************************************)
hasBadVersion(buf) ==
  /\ Len(buf) >= 6
  /\ SubSeq(buf, 1, 2) = str_UC
  /\ readUInt16LE(buf, 2) # 1

C20_BadVersionSkipsTwo ==
  [][event'.op = "data" =>
       LET buf == receiveBuffer \o event'.data
           rest == handleIncomingData(sliceFrom(buf, 2), <<>>, Now)
       IN  /\ hasBadVersion(buf)
                => /\ receiveBuffer' = rest.buf
                   /\ channelStates' = rest.s.cs
                   /\ mixerBypassState' = rest.s.mb
                   /\ yielded' = rest.out
           /\ \A prefix \in BadVersionPrefixes :
                (receiveBuffer = <<>> /\ event'.data = prefix \o validFrame)
                  => /\ yielded' = <<parsePacket(validFrame)>>
                     /\ channelFeedback(channelStates', 1, "mute") = "true"
                     /\ receiveBuffer' = <<>>
    ]_vars

\* the magic, one byte, and then a frame: the frame that begins at the third
\* byte was extracted and set mute of channel 1
C20_Witness ==
  /\ event.op = "data"
  /\ event.data = <<85, 67, 0>> \o validFrame
  /\ yielded = <<parsePacket(validFrame)>>
  /\ channelFeedback(channelStates, 1, "mute") = "true"
  /\ receiveBuffer = <<>>

(***************************************************************************)
(* C21.  Decode fails only for the four listed reasons: parsePacket        *)
(* returns a message when the bytes hold 6 header bytes, the magic,        *)
(* version 1 and as many bytes after the header as the length field says,  *)
(* whatever that length, and raises when one of the four does not hold.    *)
(***************************************************************************)
wellFramed(data) ==
  /\ Len(data) >= 6
  /\ SubSeq(data, 1, 2) = str_UC
  /\ data[3] = 1 /\ data[4] = 0
  /\ Len(data) >= 6 + data[5] + 256 * data[6]

C21_DecodeFailsOnlyWhenMalformed ==
  event.op = "decoded_raw" => (decoded.thrown <=> ~wellFramed(built.frame))

(***************************************************************************)
(* C22.  Last write wins: a handler runs as one step, and after the step   *)
(* of a toggle, of an inbound PV delta (TCP or UDP) or of an inbound ZM    *)
(* snapshot that writes a parameter, the store holds for that parameter    *)
(* the value that event wrote, whatever the events before it wrote.        *)
(***************************************************************************)
C22_LastWriteWins ==
  [][/\ event'.op = "toggle_channel"
          => channelFeedback(channelStates', event'.ch, event'.attr)
               = triOf(FloatGT0(pvValueOf(handed'[1])))
     /\ event'.op = "toggle_mixer_bypass"
          => mixerBypassState' = FloatGT0(pvValueOf(handed'[1]))
     /\ InboundOfType(str_PV)'
          => /\ \A d \in ChannelDeltas :
                  event'.data = d.data
                    => channelFeedback(channelStates', d.ch, d.a) = triOf(isPositive(d.v))
             /\ \A d \in GlobalDeltas :
                  event'.data = d.data => mixerBypassState' = isPositive(d.v)
     /\ InboundOfType(str_ZM)'
          => \A k \in 1..Len(Documents) :
               event'.data = deviceFrame(str_ZM, zmBody(<<k>>))
                 => LET doc == Documents[k] IN
                    /\ \A ch \in ChannelsOf(channelStates, channelStates'), a \in Attrs :
                         keyPlaces(doc, ch, a) # {}
                           => channelFeedback(channelStates', ch, a)
                                = triOf(documentValue(doc, ch, a) > 0)
                    /\ (doc.global.present /\ "mixerBypass" \in DOMAIN doc.global.values)
                         => mixerBypassState' = (doc.global.values["mixerBypass"] > 0)
    ]_vars

\* the snapshot that sets 48v, hpf and pad of channel 2 wrote hpf = false, the
\* toggle of hpf that came after it wrote true: the store holds true
C22_Witness ==
  /\ nEvents = 2
  /\ event.op = "toggle_channel" /\ event.ch = 2 /\ event.attr = "hpf"
  /\ channelFeedback(channelStates, 2, "hpf") = "true"
  /\ channelFeedback(channelStates, 2, "48v") = "true"
  /\ channelFeedback(channelStates, 2, "pad") = "true"

(***************************************************************************)
(* C23.  The UM frame announces the currently bound UDP port: whenever the *)
(* connect callback sends the UM frame, a UDP socket is open and bound,    *)
(* its port has been recorded, and the frame carries that port.            *)
(***************************************************************************)
C23_UMCarriesBoundPort ==
  [][event'.op = "connect"
       => /\ udpServer = "bound"
          /\ udpPort # 0
          /\ wire'[1] = buildUMPacket(udpPort)
    ]_vars

(***************************************************************************)
(* C24.  Every State Store change is followed by a feedback refresh: a     *)
(* step that changes the value of a channel attribute refreshes the        *)
(* feedback of that attribute, and a step that changes the global bypass   *)
(* refreshes the bypass feedback, within the same step.                    *)
(***************************************************************************)
C24_ChangeRefreshesFeedback ==
  [][/\ \A ch \in ChannelsOf(channelStates, channelStates'), a \in Attrs :
          channelFeedback(channelStates', ch, a) # channelFeedback(channelStates, ch, a)
            => feedbackId(a) \in feedbacks'
     /\ mixerBypassState' # mixerBypassState
          => "mixer_bypass_state" \in feedbacks'
    ]_vars

(***************************************************************************)
(* C25.  Toggle frame condition: a toggle command for one attribute of     *)
(* channel N changes only that attribute of channel N; every other         *)
(* attribute of that channel, every other channel and the global bypass    *)
(* read the same after the command as before it.                           *)
(***************************************************************************)
C25_ToggleFrame ==
  [][event'.op = "toggle_channel"
       => /\ SameExcept(channelStates, channelStates', {<<event'.ch, event'.attr>>})
          /\ mixerBypassState' = mixerBypassState
    ]_vars

(***************************************************************************)
(* C26.  A command changes the store only if its PV frame was handed to    *)
(* the transport: a toggle of a channel attribute or of the global bypass  *)
(* that writes nothing to the socket leaves the store unchanged.           *)
(***************************************************************************)
C26_UnsentToggleKeepsStore ==
  [][(event'.op \in {"toggle_channel", "toggle_mixer_bypass"} /\ wire' = <<>>)
       => /\ \A ch \in ChannelsOf(channelStates, channelStates'), a \in Attrs :
               channelFeedback(channelStates', ch, a) = channelFeedback(channelStates, ch, a)
          /\ mixerBypassState' = mixerBypassState
    ]_vars

(***************************************************************************)
(* C27.  Events of a torn-down transport cannot affect the session: the    *)
(* late 'close' of a socket that a reconfiguration replaced leaves the     *)
(* status as it is, and a status of connected is left only by the 'error'  *)
(* or 'close' of the current socket.                                       *)
(***************************************************************************)
C27_StaleEventsKeepStatus ==
  [][/\ (event'.op = "close" /\ event'.flag) => status' = status
     /\ (status = "ok" /\ status' # "ok")
          => (event'.op \in {"error", "close"} /\ ~event'.flag)
    ]_vars

(***************************************************************************)
(* C28.  The carry-over receive buffer is per connection: when a           *)
(* reconfiguration tears the TCP connection down and starts a new one, the *)
(* buffer is empty afterwards, so that the first chunk of the new          *)
(* connection is processed from an empty buffer.                           *)
(***************************************************************************)
C28_BufferPerConnection ==
  [][event'.op = "config_updated" => receiveBuffer' = <<>>]_vars

(***************************************************************************)
(* C29.  Reassembler rest invariant: every time handleIncomingData has     *)
(* returned, the carry-over buffer is shorter than 6 bytes, or it begins   *)
(* with the magic and version 1 and is strictly shorter than 6 plus the    *)
(* payload length its header declares.                                     *)
(***************************************************************************)
C29_RestInvariant ==
  \/ Len(receiveBuffer) < 6
  \/ /\ SubSeq(receiveBuffer, 1, 2) = str_UC
     /\ readUInt16LE(receiveBuffer, 2) = 1
     /\ Len(receiveBuffer) < 6 + readUInt16LE(receiveBuffer, 4)

\* a chunk boundary fell inside a payload: the buffer holds a whole header and
\* a part of the payload, after at least one frame was yielded
C29_Witness ==
  /\ event.op = "data"
  /\ Len(receiveBuffer) > 6
  /\ Len(yielded) > 0
  /\ Len(stream.rest) > 0

(***************************************************************************)
(* C30.  The reassembly loop terminates on every input: from the buffer    *)
(* joined with the received chunk, each pass through the loop either       *)
(* leaves the loop or leaves a strictly shorter buffer, and the passes     *)
(* taken one after the other end in the result of handleIncomingData.      *)
(***************************************************************************)
loopState(n) == [buf |-> n.buf, s |-> n.s, out |-> n.out]

RECURSIVE everyPassShortens(_)
everyPassShortens(r) ==
  \/ Len(r.buf) < 6
  \/ LET n == iteration(r) IN
     IF n.exit THEN reassemble(r) = loopState(n)
     ELSE /\ Len(n.buf) < Len(r.buf)
          /\ reassemble(r) = reassemble(loopState(n))
          /\ everyPassShortens(loopState(n))

\* the number of passes the loop takes, counted while each one shortens
RECURSIVE passes(_)
passes(r) ==
  IF Len(r.buf) < 6 THEN 0
  ELSE LET n == iteration(r) IN
       IF n.exit \/ Len(n.buf) >= Len(r.buf) THEN 1 ELSE 1 + passes(loopState(n))

C30_LoopTerminates ==
  [][event'.op = "data"
       => LET r == [buf |-> receiveBuffer \o event'.data, s |-> Now, out |-> <<>>] IN
          /\ everyPassShortens(r)
          /\ receiveBuffer' = reassemble(r).buf
          /\ yielded' = reassemble(r).out
    ]_vars

\* after a chunk that left one byte in the buffer, a chunk that takes a noise
\* discard and a version skip in one pass and a noise discard and a frame
\* extraction in the next
C30_Witness ==
  /\ event.op = "data"
  /\ nEvents = 2
  /\ event.data = buildKAPacket \o validFrame
  /\ channelFeedback(channelStates, 2, "hpf") = "true"
  /\ channelFeedback(channelStates, 1, "mute") = "true"
  /\ passes([buf |-> <<chr_U>> \o event.data,
             s |-> Context(<<>>, FALSE, "open"), out |-> <<>>]) = 2
  /\ Len(yielded) = 1

====
